---- MODULE Spec2Model ----
(***************************************************************************)
(* Model of src/plugins/todo/src/plugin.ts: the useTechDocsReaderDom hook  *)
(* (render effect, pre-render / post-render transform chains, link click   *)
(* handler, footer width maintenance).                                     *)
(*                                                                         *)
(* Every execution of the render effect that finds raw content starts one  *)
(* pipeline run.  Runs are numbered 1, 2, ... in the order they start; the *)
(* element a run produces is identified with the run's number.             *)
(***************************************************************************)
EXTENDS Integers, Sequences, FiniteSets, TLC

\* Bound on the number of pipeline runs started in one behaviour.
MaxRuns == 2

Runs == 1..MaxRuns

\* useState<HTMLElement | null>(null): the null element.
NULL == 0

(***************************************************************************)
(* Raw pages delivered by useTechDocsReader().  "" is the falsy content    *)
(* (nothing loaded).  The other pages are representative documents:        *)
(*   "doc"   pre-renders to an element with a .md-footer and an element    *)
(*           with id "sec";                                                *)
(*   "plain" pre-renders to an element without footer and without ids;     *)
(*   "blank" pre-renders to an element whose innerHTML is empty;           *)
(*   "void"  pre-renders to null / undefined.                              *)
(***************************************************************************)
RawPages == {"", "doc", "plain", "blank", "void"}

\* !rawPage
Falsy_Never(rawContent) == FALSE

Falsy(rawContent) == rawContent = ""

\* What preRender resolves to for a raw page: "null", "empty" or "html".
PreRenderOutput(rawContent) ==
  CASE rawContent = "void"  -> "null"
    [] rawContent = "blank" -> "empty"
    [] OTHER                -> "html"

\* dom.querySelector('.md-footer') finds a footer.
HasFooter(rawContent) == rawContent = "doc"

\* The ids of the elements of the pre-rendered subtree.
ElementIds(rawContent) == IF rawContent = "doc" THEN {<<"sec">>} ELSE {}

\* preTransformedDomElement?.innerHTML is truthy.
HasInnerHTML_Loose(out) == out # "null"

HasInnerHTML(out) == out = "html"

\* The transformer list of preRender, in declared order.
PreRenderTransformers_Swapped ==
  << "addBaseUrl", "sanitizerTransformer", "rewriteDocLinks",
     "addSidebarToggle", "removeMkdocsHeader", "simplifyMkdocsFooter",
     "addGitFeedbackLink", "stylesTransformer" >>

PreRenderTransformers ==
  << "sanitizerTransformer", "addBaseUrl", "rewriteDocLinks",
     "addSidebarToggle", "removeMkdocsHeader", "simplifyMkdocsFooter",
     "addGitFeedbackLink", "stylesTransformer" >>

\* The transformer list of postRender, in declared order.
PostRenderTransformers ==
  << "scrollIntoAnchor", "scrollIntoNavigation", "copyToClipboard",
     "addLinkClickListener", "onCssReady" >>

(***************************************************************************)
(* Strings that the click handler takes apart are sequences of tokens.     *)
(* Origin is window.location.origin; "#" separates a URL from its          *)
(* fragment.                                                               *)
(***************************************************************************)
Origin == "https://host"

\* The anchors of a mounted document: href (absolute, as rewriteDocLinks
\* leaves it) and innerText.
Anchors ==
  { [href |-> << Origin, "/docs" >>,                      innerText |-> << "Docs" >>],
    [href |-> << Origin, "/docs", "#", "sec" >>,          innerText |-> << "Section" >>],
    [href |-> << Origin, "/docs", "#", "gone" >>,         innerText |-> << >>],
    [href |-> << Origin, "/docs", "#" >>,                 innerText |-> << "Top" >>],
    [href |-> << Origin, "/docs", "?next=", Origin >>,    innerText |-> << >>] }

\* Index of the first occurrence of token t in string s; Len(s) + 1 if none.
IndexOf(s, t) ==
  IF \E i \in 1..Len(s) : s[i] = t
    THEN CHOOSE i \in 1..Len(s) : s[i] = t /\ \A j \in 1..(i - 1) : s[j] # t
    ELSE Len(s) + 1

\* new URL(url).hash: "#" and the fragment, or "" when the URL has no
\* fragment or an empty one.
Hash(url) ==
  LET i == IndexOf(url, "#") IN
  IF i >= Len(url) THEN << >> ELSE SubSeq(url, i, Len(url))

\* url.replace(pattern, ''): the first occurrence of pattern is removed.
Replace_None(url, pattern) == url

Replace(url, pattern) ==
  LET i == IndexOf(url, pattern) IN
  IF i > Len(url) THEN url
  ELSE SubSeq(url, 1, i - 1) \o SubSeq(url, i + 1, Len(url))

\* `${width}px`
Px(width) == << width, "px" >>

\* Container widths the window can give the mounted element.
Widths == {800, 1024}

\* Reader states of useTechDocsReader().
ReaderStates == {"CHECKING", "CONTENT_FRESH"}

VARIABLES
  rawPage,               \* content seen by the latest render-effect execution
  current,               \* run whose cleanup the effect holds; NULL if none
  nRuns,                 \* number of pipeline runs started so far
  stage,                 \* per run: where its promise chain stands
  idx,                   \* per run: index of the transformer in progress
  shouldReplaceContent,  \* per run: the cancellation flag
  rawContent,            \* per run: the raw page it was started with
  log,                   \* per run: transformer starts / completions, calls
  dom,                   \* the useState value returned by the hook
  listeners,             \* elements closed over by the attached resize listeners
  effectDom,             \* dom as of the latest execution of the dom effects
  isStyleLoading,        \* useShadowDomStylesLoading(dom)
  state,                 \* reader state of useTechDocsReader()
  boxWidth,              \* getBoundingClientRect().width of the container
  footerWidth,           \* per element: style.width of its .md-footer
  alive,                 \* the component using the hook is mounted
  click                  \* latest click: its input and the calls it made

renderVars == << rawPage, current, nRuns, stage, idx, shouldReplaceContent,
                 rawContent, log >>

footerVars == << listeners, effectDom, isStyleLoading, state, boxWidth,
                 footerWidth, alive >>

vars == << renderVars, dom, footerVars, click >>

Stages == {"unstarted", "preRender", "postRender", "returned", "rejected",
           "mounted"}

Elements == Runs \cup {NULL}

TypeOK ==
  /\ rawPage \in RawPages
  /\ current \in Elements
  /\ nRuns \in 0..MaxRuns
  /\ stage \in [Runs -> Stages]
  /\ idx \in [Runs -> 0..Len(PreRenderTransformers)]
  /\ shouldReplaceContent \in [Runs -> BOOLEAN]
  /\ rawContent \in [Runs -> RawPages]
  /\ dom \in Elements
  /\ listeners \subseteq Elements
  /\ effectDom \in Elements
  /\ isStyleLoading \in BOOLEAN
  /\ state \in ReaderStates
  /\ boxWidth \in Widths
  /\ footerWidth \in [Runs -> {<< >>} \cup {Px(w) : w \in Widths}]
  /\ alive \in BOOLEAN

\* Log entries.
Start(t) == << "start", t >>
Done(t)  == << "done", t >>
Call(f)  == << "call", f >>

\* React runs the effects of a render before it renders again: no new
\* render happens while the effects of the render that followed setDom are
\* still to run.
EffectsFlushed == effectDom = dom

(***************************************************************************)
(* The render effect (useEffect on [rawPage, path, preRender, postRender]).*)
(* A re-execution first runs the cleanup of the previous execution, then   *)
(* the body with the new dependencies.  Of the dependencies the body reads *)
(* rawPage; path is only handed on to preRender.                           *)
(***************************************************************************)

\* The cleanup returned by the previous execution: () => {} when it found
\* no raw page, otherwise shouldReplaceContent = false of its run.
Cleanup(flags) ==
  IF current = NULL THEN flags ELSE [flags EXCEPT ![current] = FALSE]

\* transformer(input, list): the first transformer of the list is called
\* synchronously by the call of transformer.
TransformBegin(list) == << Start(list[1]) >>

\* Body of the effect with raw page rp.
RenderEffect(rp) ==
  /\ alive
  /\ EffectsFlushed
  /\ rawPage' = rp
  /\ IF Falsy(rp)
       THEN /\ current' = NULL
            /\ shouldReplaceContent' = Cleanup(shouldReplaceContent)
            /\ UNCHANGED << nRuns, stage, idx, rawContent, log >>
       ELSE /\ nRuns < MaxRuns
            /\ LET r == nRuns + 1 IN
               /\ nRuns' = r
               /\ current' = r
               /\ shouldReplaceContent' =
                    [Cleanup(shouldReplaceContent) EXCEPT ![r] = TRUE]
               /\ rawContent' = [rawContent EXCEPT ![r] = rp]
               /\ stage' = [stage EXCEPT ![r] = "preRender"]
               /\ idx' = [idx EXCEPT ![r] = 1]
               /\ log' = [log EXCEPT ![r] = TransformBegin(PreRenderTransformers)]
  /\ UNCHANGED << dom, footerVars, click >>

(***************************************************************************)
(* transformer(input, list): `for (const t of list) dom = await t(dom)`.   *)
(* One step is the continuation after an await: the transformer in         *)
(* progress completes and the next one of the list is called.              *)
(***************************************************************************)
TransformContinue(list, i) == << Done(list[i]), Start(list[i + 1]) >>

TransformEnd(list, i) == << Done(list[i]) >>

PreRenderStep(r) ==
  /\ stage[r] = "preRender"
  /\ idx[r] < Len(PreRenderTransformers)
  /\ log' = [log EXCEPT ![r] = @ \o TransformContinue(PreRenderTransformers, idx[r])]
  /\ idx' = [idx EXCEPT ![r] = @ + 1]
  /\ UNCHANGED << rawPage, current, nRuns, stage, shouldReplaceContent,
                  rawContent, dom, footerVars, click >>

\* The callback calling postRender before it scrolls.
Commit_ScrollLate ==
  TransformBegin(PostRenderTransformers) \o << Call("window.scroll") >>

\* What the .then callback does once it is past both early returns:
\* window.scroll({ top: 0 }) and the call of postRender.
Commit == << Call("window.scroll") >> \o TransformBegin(PostRenderTransformers)

\* The last pre-render transformer completes, preRender's promise resolves
\* and the .then callback runs up to its first await.
PreRenderResolve(r) ==
  /\ stage[r] = "preRender"
  /\ idx[r] = Len(PreRenderTransformers)
  /\ LET done == TransformEnd(PreRenderTransformers, idx[r]) IN
     IF ~HasInnerHTML(PreRenderOutput(rawContent[r]))
       THEN \* An unexpected error occurred
            /\ stage' = [stage EXCEPT ![r] = "returned"]
            /\ log' = [log EXCEPT ![r] = @ \o done]
            /\ UNCHANGED idx
       ELSE IF ~shouldReplaceContent[r]
         THEN \* this isn't the latest effect execution
              /\ stage' = [stage EXCEPT ![r] = "returned"]
              /\ log' = [log EXCEPT ![r] = @ \o done]
              /\ UNCHANGED idx
         ELSE /\ stage' = [stage EXCEPT ![r] = "postRender"]
              /\ log' = [log EXCEPT ![r] = @ \o done \o Commit]
              /\ idx' = [idx EXCEPT ![r] = 1]
  /\ UNCHANGED << rawPage, current, nRuns, shouldReplaceContent, rawContent,
                  dom, footerVars, click >>

PostRenderStep(r) ==
  /\ stage[r] = "postRender"
  /\ idx[r] < Len(PostRenderTransformers)
  /\ log' = [log EXCEPT ![r] = @ \o TransformContinue(PostRenderTransformers, idx[r])]
  /\ idx' = [idx EXCEPT ![r] = @ + 1]
  /\ UNCHANGED << rawPage, current, nRuns, stage, shouldReplaceContent,
                  rawContent, dom, footerVars, click >>

\* The last post-render transformer completes, the await of postRender
\* resumes and setDom is called with the run's element; on an unmounted
\* component setDom updates nothing.
PostRenderResolve(r) ==
  /\ EffectsFlushed
  /\ stage[r] = "postRender"
  /\ idx[r] = Len(PostRenderTransformers)
  /\ log' = [log EXCEPT ![r] =
               @ \o TransformEnd(PostRenderTransformers, idx[r]) \o << Call("setDom") >>]
  /\ stage' = [stage EXCEPT ![r] = "mounted"]
  /\ dom' = IF alive THEN r ELSE dom
  /\ UNCHANGED << rawPage, current, nRuns, idx, shouldReplaceContent,
                  rawContent, footerVars, click >>

\* The transformer in progress throws: the promise chain of the run rejects
\* and, no handler being attached, nothing of the run executes any more.
Reject_Unmount(r) ==
  /\ stage[r] \in {"preRender", "postRender"}
  /\ stage' = [stage EXCEPT ![r] = "rejected"]
  /\ dom' = NULL
  /\ effectDom' = NULL
  /\ UNCHANGED << rawPage, current, nRuns, idx, shouldReplaceContent,
                  rawContent, log, listeners, isStyleLoading, state, boxWidth,
                  footerWidth, alive, click >>

Reject(r) ==
  /\ stage[r] \in {"preRender", "postRender"}
  /\ stage' = [stage EXCEPT ![r] = "rejected"]
  /\ UNCHANGED << rawPage, current, nRuns, idx, shouldReplaceContent,
                  rawContent, log, dom, footerVars, click >>

(***************************************************************************)
(* Footer width.                                                           *)
(***************************************************************************)

\* updateFooterWidth of the render in which dom was el, called while the
\* container is w wide, on the footer widths fw.
UpdateFooterWidth_Gated(el, w, fw) ==
  IF el = NULL \/ isStyleLoading THEN fw
  ELSE IF HasFooter(rawContent[el]) THEN [fw EXCEPT ![el] = Px(w)]
  ELSE fw

UpdateFooterWidth(el, w, fw) ==
  IF el = NULL THEN fw
  ELSE IF HasFooter(rawContent[el]) THEN [fw EXCEPT ![el] = Px(w)]
  ELSE fw

\* The footer effect without its test of isStyleLoading.
FooterEffect_Always(loading, fw) == UpdateFooterWidth(dom, boxWidth, fw)

\* The effect on [state, isStyleLoading, updateFooterWidth], run with
\* isStyleLoading = loading.
FooterEffect(loading, fw) ==
  IF ~loading THEN UpdateFooterWidth(dom, boxWidth, fw) ELSE fw

\* The effects of the render that followed setDom: the effect on
\* [dom, updateFooterWidth] removes the listener of the previous render and
\* adds the one of this render; the footer effect runs, updateFooterWidth
\* having changed.
FlushEffects_KeepOld ==
  /\ effectDom # dom
  /\ listeners' = listeners \cup {dom}
  /\ effectDom' = dom
  /\ footerWidth' = FooterEffect(isStyleLoading, footerWidth)
  /\ UNCHANGED << renderVars, dom, isStyleLoading, state, boxWidth, alive,
                  click >>

FlushEffects ==
  /\ effectDom # dom
  /\ listeners' = (listeners \ {effectDom}) \cup {dom}
  /\ effectDom' = dom
  /\ footerWidth' = FooterEffect(isStyleLoading, footerWidth)
  /\ UNCHANGED << renderVars, dom, isStyleLoading, state, boxWidth, alive,
                  click >>

\* The component using the hook unmounts: the cleanups of its effects run,
\* that of the resize effect removes the listener it added and that of the
\* render effect clears the flag of its run.
Unmount ==
  /\ alive
  /\ EffectsFlushed
  /\ alive' = FALSE
  /\ listeners' = listeners \ {effectDom}
  /\ shouldReplaceContent' = Cleanup(shouldReplaceContent)
  /\ current' = NULL
  /\ UNCHANGED << rawPage, nRuns, stage, idx, rawContent, log, dom, effectDom,
                  isStyleLoading, state, boxWidth, footerWidth, click >>

\* A resize event of the window, after which the container is w wide:
\* every attached listener is called.
Resize_Remount(w) ==
  /\ boxWidth' = w
  /\ dom' = NULL
  /\ effectDom' = NULL
  /\ UNCHANGED << renderVars, listeners, isStyleLoading, state, footerWidth,
                  alive, click >>

Resize(w) ==
  /\ boxWidth' = w
  /\ footerWidth' =
       [e \in Runs |->
          IF e \in listeners THEN UpdateFooterWidth(e, w, footerWidth)[e]
          ELSE footerWidth[e]]
  /\ UNCHANGED << renderVars, dom, listeners, effectDom, isStyleLoading,
                  state, alive, click >>

\* useShadowDomStylesLoading(dom) changes its result: the hook renders again
\* and the footer effect runs.
StyleLoading(loading) ==
  /\ alive
  /\ EffectsFlushed
  /\ loading # isStyleLoading
  /\ isStyleLoading' = loading
  /\ footerWidth' = FooterEffect(loading, footerWidth)
  /\ UNCHANGED << renderVars, dom, listeners, effectDom, state, boxWidth,
                  alive, click >>

\* The reader state changes: the hook renders again and the footer effect
\* runs.
StateChange(s) ==
  /\ alive
  /\ EffectsFlushed
  /\ s # state
  /\ state' = s
  /\ footerWidth' = FooterEffect(isStyleLoading, footerWidth)
  /\ UNCHANGED << renderVars, dom, listeners, effectDom, isStyleLoading,
                  boxWidth, alive, click >>

(***************************************************************************)
(* The click handler handed to addLinkClickListener by postRender.         *)
(***************************************************************************)
CallRecord(fn, name, text, url, el) ==
  [fn |-> fn, name |-> name, text |-> text, url |-> url, element |-> el]

CaptureEvent(action, subject, to) ==
  CallRecord("analytics.captureEvent", action, subject, to, NULL)

Navigate(url) == CallRecord("navigate", "", << >>, url, NULL)

WindowOpen(url, target) == CallRecord("window.open", target, << >>, url, NULL)

\* transformedElement?.querySelector(`[id="${id}"]`)?.scrollIntoView()
ScrollIntoView(el, id) ==
  IF id \in ElementIds(rawContent[el])
    THEN << CallRecord("scrollIntoView", "", id, << >>, el) >>
    ELSE << >>

\* onClick without the scroll to the hash.
OnClick_NoScroll(el, url, ctrlKey, metaKey, innerText) ==
  LET modifierActive == ctrlKey \/ metaKey
      linkText == IF innerText # << >> THEN innerText ELSE url
      capture == << CaptureEvent("click", linkText, Replace(url, Origin)) >>
  IN  IF modifierActive
        THEN capture \o << WindowOpen(url, "_blank") >>
        ELSE capture \o << Navigate(url) >>

\* onClick with the modifier test of the branch without hash inverted.
OnClick_Inverted(el, url, ctrlKey, metaKey, innerText) ==
  LET modifierActive == ctrlKey \/ metaKey
      hash == Hash(url)
      linkText == IF innerText # << >> THEN innerText ELSE url
      capture == << CaptureEvent("click", linkText, Replace(url, Origin)) >>
  IN  IF hash # << >>
        THEN IF modifierActive
               THEN capture \o << WindowOpen(url, "_blank") >>
               ELSE capture \o << Navigate(url) >> \o ScrollIntoView(el, Tail(hash))
        ELSE IF ~modifierActive
               THEN capture \o << WindowOpen(url, "_blank") >>
               ELSE capture \o << Navigate(url) >>

\* onClick that takes only ctrlKey for a modifier.
OnClick_CtrlOnly(el, url, ctrlKey, metaKey, innerText) ==
  LET modifierActive == ctrlKey
      hash == Hash(url)
      linkText == IF innerText # << >> THEN innerText ELSE url
      capture == << CaptureEvent("click", linkText, Replace(url, Origin)) >>
  IN  IF hash # << >>
        THEN IF modifierActive
               THEN capture \o << WindowOpen(url, "_blank") >>
               ELSE capture \o << Navigate(url) >> \o ScrollIntoView(el, Tail(hash))
        ELSE IF modifierActive
               THEN capture \o << WindowOpen(url, "_blank") >>
               ELSE capture \o << Navigate(url) >>

\* onClick(event, url) of the run whose transformedElement is el; innerText
\* is that of event.target.  The result is the sequence of calls it makes.
OnClick(el, url, ctrlKey, metaKey, innerText) ==
  LET modifierActive == ctrlKey \/ metaKey
      hash == Hash(url)
      linkText == IF innerText # << >> THEN innerText ELSE url
      to == Replace(url, Origin)
      capture == << CaptureEvent("click", linkText, to) >>
  IN  IF hash # << >>
        THEN IF modifierActive
               THEN capture \o << WindowOpen(url, "_blank") >>
               ELSE capture \o << Navigate(url) >> \o ScrollIntoView(el, Tail(hash))
        ELSE IF modifierActive
               THEN capture \o << WindowOpen(url, "_blank") >>
               ELSE capture \o << Navigate(url) >>

NoClick ==
  [href |-> << >>, ctrlKey |-> FALSE, metaKey |-> FALSE, element |-> NULL,
   calls |-> << >>]

\* A click on anchor a of the mounted element.
Click(a, ctrlKey, metaKey) ==
  /\ dom # NULL
  /\ click' = [href |-> a.href, ctrlKey |-> ctrlKey, metaKey |-> metaKey,
               element |-> dom,
               calls |-> OnClick(dom, a.href, ctrlKey, metaKey, a.innerText)]
  /\ UNCHANGED << renderVars, dom, footerVars >>

(***************************************************************************)
(* Specifications.                                                         *)
(***************************************************************************)
Init ==
  /\ rawPage = ""
  /\ current = NULL
  /\ nRuns = 0
  /\ stage = [r \in Runs |-> "unstarted"]
  /\ idx = [r \in Runs |-> 0]
  /\ shouldReplaceContent = [r \in Runs |-> FALSE]
  /\ rawContent = [r \in Runs |-> ""]
  /\ log = [r \in Runs |-> << >>]
  /\ dom = NULL
  /\ listeners = {NULL}
  /\ effectDom = NULL
  /\ isStyleLoading = FALSE
  /\ state = "CHECKING"
  /\ boxWidth = 800
  /\ footerWidth = [r \in Runs |-> << >>]
  /\ alive = TRUE
  /\ click = NoClick

\* The promise chains of the runs.
Pipeline ==
  \/ \E r \in Runs : PreRenderStep(r)
  \/ \E r \in Runs : PreRenderResolve(r)
  \/ \E r \in Runs : PostRenderStep(r)
  \/ \E r \in Runs : PostRenderResolve(r)
  \/ FlushEffects

\* Raw pages that differ in what the pipeline does with them.
PipelinePages == {"", "doc", "blank", "void"}

\* The render pipeline with empty outputs and throwing transformers.
Next ==
  \/ \E rp \in PipelinePages : RenderEffect(rp)
  \/ Pipeline
  \/ \E r \in Runs : Reject(r)

Spec == Init /\ [][Next]_vars

\* Raw pages that pre-render to content.
ContentPages == {"", "doc", "plain"}

\* Raw pages whose document has the anchors' targets.
AnchorPages == {"", "doc"}

\* Clicks on the anchors of mounted documents.
NextClick ==
  \/ \E rp \in AnchorPages : RenderEffect(rp)
  \/ Pipeline
  \/ \E a \in Anchors, ctrlKey \in BOOLEAN, metaKey \in BOOLEAN :
       Click(a, ctrlKey, metaKey)

SpecClick == Init /\ [][NextClick]_vars

\* Resize events, style loading, reader state changes and the unmount.
NextFooter ==
  \/ \E rp \in ContentPages : RenderEffect(rp)
  \/ Pipeline
  \/ \E w \in Widths : Resize(w)
  \/ \E loading \in BOOLEAN : StyleLoading(loading)
  \/ \E s \in ReaderStates : StateChange(s)
  \/ Unmount

SpecFooter == Init /\ [][NextFooter]_vars

\* Clicks and resize events next to the pipeline.
NextUI ==
  \/ \E rp \in AnchorPages : RenderEffect(rp)
  \/ Pipeline
  \/ \E a \in Anchors, ctrlKey \in BOOLEAN, metaKey \in BOOLEAN :
       Click(a, ctrlKey, metaKey)
  \/ \E w \in Widths : Resize(w)

SpecUI == Init /\ [][NextUI]_vars

(***************************************************************************)
(* Properties.                                                             *)
(***************************************************************************)
IsPrefix(s, t) == Len(s) <= Len(t) /\ SubSeq(t, 1, Len(s)) = s

Has(s, e) == \E i \in 1..Len(s) : s[i] = e

Started(r) == stage[r] # "unstarted"

\* C1: last request wins -- a run whose flag was set to false by the cleanup
\* (a newer execution of the effect exists) before it called setDom never
\* calls setDom, whenever its pre-render or post-render resolves.
C1_LastRequestWins ==
  [][\A r \in Runs :
       (Started(r) /\ stage[r] # "mounted" /\ ~shouldReplaceContent[r])
         => stage'[r] # "mounted"]_vars

\* The pre-render output of run r is null / undefined or has an empty
\* innerHTML.
EmptyOutput(r) ==
  Started(r) /\ PreRenderOutput(rawContent[r]) \in {"null", "empty"}

\* C2: a run whose pre-render output is null / undefined or has an empty
\* innerHTML performs no window scroll, starts no post-render transform and
\* never calls setDom; no step of the run changes the mounted element.
C2_EmptyOutputIsNoOp ==
  [][\A r \in Runs :
       EmptyOutput(r)' =>
         /\ ~Has(log'[r], Call("window.scroll"))
         /\ ~Has(log'[r], Call("setDom"))
         /\ \A i \in 1..Len(PostRenderTransformers) :
              ~Has(log'[r], Start(PostRenderTransformers[i]))
         /\ dom' # r
         /\ (log'[r] # log[r] \/ stage'[r] # stage[r]) => dom' = dom]_vars

\* A run with empty pre-render output has returned while the element of an
\* earlier run is mounted.
C2_Witness ==
  \E r \in Runs :
    /\ EmptyOutput(r)
    /\ stage[r] = "returned"
    /\ dom \in Runs /\ dom < r

\* The click handler has been invoked.
Clicked == click.calls # << >>

\* The indexes of the latest click's calls of fn.
CallsTo(fn) == {i \in 1..Len(click.calls) : click.calls[i].fn = fn}

\* The href has a (non-empty) fragment: a "#" with something after it.
HasFragment(href) == \E i \in 1..(Len(href) - 1) : href[i] = "#"

\* The fragment of an href that has one, without the "#".
FragmentOf(href) ==
  LET i == CHOOSE k \in 1..Len(href) :
             href[k] = "#" /\ \A j \in 1..(k - 1) : href[j] # "#"
  IN  SubSeq(href, i + 1, Len(href))

NoModifier == ~click.ctrlKey /\ ~click.metaKey

\* C3: a click on a link with a fragment -- without modifier key it calls
\* navigate with the full URL and scrolls into view the element of the
\* clicked (mounted) subtree whose id is the fragment without '#'; with
\* ctrlKey or metaKey it calls window.open(url, '_blank') and neither
\* navigates nor scrolls.
C3_FragmentClick ==
  (Clicked /\ HasFragment(click.href)) =>
    IF NoModifier
      THEN /\ \E i \in CallsTo("navigate") : click.calls[i].url = click.href
           /\ CallsTo("window.open") = {}
           /\ \A j \in CallsTo("scrollIntoView") :
                /\ click.calls[j].element = click.element
                /\ click.calls[j].text = FragmentOf(click.href)
           /\ (FragmentOf(click.href) \in ElementIds(rawContent[click.element]))
                <=> (CallsTo("scrollIntoView") # {})
      ELSE /\ \E i \in CallsTo("window.open") :
                click.calls[i].url = click.href /\ click.calls[i].name = "_blank"
           /\ CallsTo("navigate") = {}
           /\ CallsTo("scrollIntoView") = {}

\* A link with a fragment was clicked without modifier and its target was
\* scrolled into view.
C3_Witness ==
  /\ Clicked /\ HasFragment(click.href) /\ NoModifier
  /\ CallsTo("navigate") # {}
  /\ \E j \in CallsTo("scrollIntoView") : click.calls[j].text = << "sec" >>

\* C4: a click on a link without fragment and without modifier key calls
\* navigate(url) exactly once and neither window.open nor scrollIntoView.
C4_PlainClick ==
  (Clicked /\ ~HasFragment(click.href) /\ NoModifier) =>
    /\ Cardinality(CallsTo("navigate")) = 1
    /\ \A i \in CallsTo("navigate") : click.calls[i].url = click.href
    /\ CallsTo("window.open") = {}
    /\ CallsTo("scrollIntoView") = {}

\* A link without "#" was clicked without modifier.
C4_Witness ==
  /\ Clicked /\ NoModifier
  /\ \A i \in 1..Len(click.href) : click.href[i] # "#"
  /\ Cardinality(CallsTo("navigate")) = 1

\* C5: every invocation of the click handler emits exactly one analytics
\* event, named 'click', whose attributes.to is the clicked URL with the
\* window origin stripped, before any navigate or window.open call.
C5_ClickAnalytics ==
  Clicked =>
    /\ CallsTo("analytics.captureEvent") = {1}
    /\ click.calls[1].name = "click"
    /\ click.href = << Origin >> \o click.calls[1].url
    /\ \A i \in CallsTo("navigate") \cup CallsTo("window.open") : i > 1

\* A link with a fragment was clicked with ctrlKey held.
C5_Witness ==
  /\ Clicked /\ click.ctrlKey /\ HasFragment(click.href)
  /\ CallsTo("analytics.captureEvent") = {1}
  /\ CallsTo("window.open") # {}

\* An element with a .md-footer is mounted and the resize listener of its
\* render is attached.
FooterMounted ==
  alive /\ dom # NULL /\ EffectsFlushed /\ HasFooter(rawContent[dom])

\* C6 as stated: on a resize event the footer width of the mounted element
\* is set to the container's width in px if style loading is not in
\* progress, and nothing is recomputed if style loading is in progress.
C6_ResizeGatedByStyleLoading ==
  [][\A w \in Widths :
       Resize(w) =>
         IF isStyleLoading
           THEN footerWidth' = footerWidth
           ELSE FooterMounted => footerWidth'[dom] = Px(w)]_vars

\* C6, amended: on a resize event the footer width of the mounted element
\* (if it has a footer and the listener of its render is attached) is set
\* to the container's current width in px, whether or not style loading is
\* in progress; the event changes neither dom nor isStyleLoading.
C6_ResizeRecomputes ==
  [][\A w \in Widths :
       Resize(w) =>
         /\ FooterMounted => footerWidth'[dom] = Px(w)
         /\ dom' = dom /\ isStyleLoading' = isStyleLoading]_vars

\* The footer of the mounted element has followed a resize to 1024 while
\* style loading is in progress.
C6_Witness ==
  /\ isStyleLoading /\ FooterMounted
  /\ boxWidth = 1024 /\ footerWidth[dom] = Px(1024)

\* The calls and transformer events of a run that goes all the way to
\* setDom, in the declared order.
DeclaredOrder ==
  << Start("sanitizerTransformer"),  Done("sanitizerTransformer"),
     Start("addBaseUrl"),            Done("addBaseUrl"),
     Start("rewriteDocLinks"),       Done("rewriteDocLinks"),
     Start("addSidebarToggle"),      Done("addSidebarToggle"),
     Start("removeMkdocsHeader"),    Done("removeMkdocsHeader"),
     Start("simplifyMkdocsFooter"),  Done("simplifyMkdocsFooter"),
     Start("addGitFeedbackLink"),    Done("addGitFeedbackLink"),
     Start("stylesTransformer"),     Done("stylesTransformer"),
     Call("window.scroll"),
     Start("scrollIntoAnchor"),      Done("scrollIntoAnchor"),
     Start("scrollIntoNavigation"),  Done("scrollIntoNavigation"),
     Start("copyToClipboard"),       Done("copyToClipboard"),
     Start("addLinkClickListener"),  Done("addLinkClickListener"),
     Start("onCssReady"),            Done("onCssReady"),
     Call("setDom") >>

\* C7: within one run every pre-render transform (sanitize, addBaseUrl,
\* rewriteDocLinks, addSidebarToggle, removeMkdocsHeader,
\* simplifyMkdocsFooter, addGitFeedbackLink, styles) has completed, in that
\* order, before the first post-render transform starts, and the post-render
\* transforms start in the order scrollIntoAnchor, scrollIntoNavigation,
\* copyToClipboard, addLinkClickListener, onCssReady: what a run has done so
\* far is always a prefix of the declared order.
C7_DeclaredOrder == \A r \in Runs : IsPrefix(log[r], DeclaredOrder)

\* A run has gone through all transforms of both stages.
C7_Witness ==
  \E r \in Runs : stage[r] = "mounted" /\ Len(log[r]) = Len(DeclaredOrder)

\* No transformer is started twice in log l.
NoRetry(l) ==
  \A i, j \in 1..Len(l) : (l[i][1] = "start" /\ l[i] = l[j]) => i = j

\* C8: if a transform of a run throws, the run never calls setDom, no
\* transform is retried and nothing of the run executes afterwards; the
\* throw leaves the mounted element as it was.  (Later runs still mount:
\* the witness.)
C8_ThrowNeverMounts ==
  [][\A r \in Runs :
       /\ (stage[r] # "rejected" /\ stage'[r] = "rejected")
            => /\ dom' = dom
               /\ log'[r] = log[r]
               /\ ~Has(log[r], Call("setDom"))
               /\ NoRetry(log[r])
       /\ stage[r] = "rejected"
            => (stage'[r] = "rejected" /\ log'[r] = log[r] /\ dom' # r)]_vars

\* A run was rejected and a later run has mounted its own element.
C8_Witness ==
  \E r1, r2 \in Runs :
    /\ r1 < r2
    /\ stage[r1] = "rejected"
    /\ stage[r2] = "mounted" /\ dom = r2

\* C9 as stated: whenever no raw content is available the effect execution
\* has started no run and the element returned by the hook is null.
C9_IdleRendersNothing ==
  rawPage = "" => (current = NULL /\ dom = NULL)

\* C9, amended: the effect execution that finds no raw content starts no
\* pre-render, no scroll and no post-render (it starts no run, logs nothing
\* and every earlier run is cancelled) and leaves the element returned by
\* the hook as it was; that element is null as long as no run has called
\* setDom.
C9_IdleStartsNothing ==
  [][/\ rawPage' = "" =>
          /\ current' = NULL
          /\ \A r \in Runs : ~shouldReplaceContent'[r]
          /\ rawPage' # rawPage =>
               (nRuns' = nRuns /\ stage' = stage /\ log' = log /\ dom' = dom)
     /\ (\A r \in Runs : ~Has(log'[r], Call("setDom"))) => dom' = NULL]_vars

\* The raw content has gone away while the element of a run stays mounted.
C9_Witness ==
  /\ rawPage = "" /\ current = NULL
  /\ dom # NULL /\ stage[dom] = "mounted"

\* C10: the mounted element changes only when a run completes post-render
\* and calls setDom (dom becomes that run's element); resize events, footer
\* width updates and link clicks change neither the mounted element nor any
\* run's cancellation flag nor any run's progress.
C10_OnlySetDomMounts ==
  [][/\ dom' # dom =>
          \E r \in Runs :
            /\ stage[r] = "postRender" /\ idx[r] = 5
            /\ stage'[r] = "mounted"
            /\ dom' = r
     /\ (\/ click' # click
         \/ boxWidth' # boxWidth
         \/ footerWidth' # footerWidth
         \/ listeners' # listeners)
          => /\ dom' = dom
             /\ shouldReplaceContent' = shouldReplaceContent
             /\ stage' = stage]_vars

\* A link of the mounted element has been clicked and a resize has set the
\* width of its footer.
C10_Witness ==
  /\ Clicked /\ click.element = dom
  /\ boxWidth = 1024
  /\ dom # NULL /\ footerWidth[dom] = Px(1024)

\* Every started run has ended without a throw: its pre-render resolved
\* and, if it went on, its post-render resolved.
Settled ==
  /\ nRuns > 0
  /\ \A r \in Runs : stage[r] \in {"unstarted", "returned", "mounted"}

\* C12: once every render request has settled and none threw, if the latest
\* request produced non-empty pre-render output then the mounted element is
\* the result of that latest request, whatever the order in which the
\* stages of the runs resolved.
C12_LatestIsMounted ==
  (Settled /\ current # NULL /\ PreRenderOutput(rawContent[current]) = "html")
    => dom = current

\* C13: the cancellation flag is checked before the final DOM swap -- a run
\* whose flag is false when its setDom would execute does not execute it; a
\* run superseded before its pre-render resolves does not scroll, starts no
\* post-render transform and never calls setDom, while its pre-render goes
\* on.
C13_FlagCheckedBeforeSwap ==
  [][\A r \in Runs :
       /\ (stage[r] = "postRender" /\ stage'[r] = "mounted")
            => shouldReplaceContent[r]
       /\ (stage[r] = "preRender" /\ ~shouldReplaceContent[r])
            => /\ stage'[r] \in {"preRender", "returned", "rejected"}
               /\ ~Has(log'[r], Call("window.scroll"))]_vars

\* The part of C13 about runs superseded before their pre-render resolves.
SupersededInPreRenderStops ==
  [][\A r \in Runs :
       (stage[r] = "preRender" /\ ~shouldReplaceContent[r])
         => /\ stage'[r] \in {"preRender", "returned", "rejected"}
            /\ ~Has(log'[r], Call("window.scroll"))
            /\ ~Has(log'[r], Call("setDom"))
            /\ ~Has(log'[r], Start("scrollIntoAnchor"))]_vars

\* C14: every click results in exactly one of navigate(url) and
\* window.open(url, '_blank'): window.open exactly when ctrlKey or metaKey
\* is held, navigate otherwise, with or without fragment; scrollIntoView is
\* attempted only when the URL has a fragment and no modifier is held.
C14_NavigateXorOpen ==
  Clicked =>
    /\ Cardinality(CallsTo("navigate") \cup CallsTo("window.open")) = 1
    /\ (click.ctrlKey \/ click.metaKey) <=> (CallsTo("window.open") # {})
    /\ \A i \in CallsTo("navigate") \cup CallsTo("window.open") :
         click.calls[i].url = click.href
    /\ \A i \in CallsTo("window.open") : click.calls[i].name = "_blank"
    /\ (CallsTo("scrollIntoView") # {})
         => (HasFragment(click.href) /\ NoModifier)

\* A link without fragment was clicked with only metaKey held and opened in
\* a new tab.
C14_Witness ==
  /\ Clicked /\ click.metaKey /\ ~click.ctrlKey
  /\ ~HasFragment(click.href)
  /\ Cardinality(CallsTo("window.open")) = 1 /\ CallsTo("navigate") = {}

\* C15 as stated: at every moment exactly the resize listener of the
\* currently mounted element is attached while the component is mounted, and
\* none after the unmount.
C15_ListenerReadsMounted ==
  /\ Cardinality(listeners) <= 1
  /\ alive => listeners = {dom}
  /\ ~alive => listeners = {}

\* C15: at every moment at most one resize listener of the hook is attached;
\* the effects that follow a change of the mounted element remove the old
\* listener and add the new one in one step, so that once they have run the
\* attached listener reads the currently mounted element; between setDom and
\* those effects the attached listener is still that of the previous
\* element; after the unmount no listener remains.
C15_OneListener ==
  /\ Cardinality(listeners) <= 1
  /\ alive => listeners = {effectDom}
  /\ (alive /\ EffectsFlushed) => listeners = {dom}
  /\ ~alive => listeners = {}

\* The effects of a second mount have run: the listener of the first mounted
\* element is gone and that of the second is attached.
C15_Witness ==
  /\ alive /\ EffectsFlushed
  /\ dom # NULL /\ listeners = {dom}
  /\ \E r \in Runs : r # dom /\ stage[r] = "mounted"

\* The component unmounted while an element was mounted.
C15_WitnessUnmounted ==
  ~alive /\ dom # NULL /\ listeners = {}

\* Positions of the calls of window.scroll in a log.
Scrolls(l) == {i \in 1..Len(l) : l[i] = Call("window.scroll")}

\* Positions at which a log starts a post-render transformer.
PostRenderStarts(l) ==
  {i \in 1..Len(l) :
     \E k \in 1..Len(PostRenderTransformers) :
       l[i] = Start(PostRenderTransformers[k])}

Recomputed(el, w, fw) ==
  [e \in Runs |->
     IF e = el /\ rawContent[e] = "doc" THEN Px(w) ELSE fw[e]]

\* A dependency of the footer effect changes in the step: the reader state,
\* isStyleLoading, or the element the effects have seen.
FooterTrigger ==
  \/ state' # state
  \/ isStyleLoading' # isStyleLoading
  \/ effectDom' # effectDom

\* C17: without a resize event, the footer width is recomputed when style
\* loading finishes, when the reader state changes while not loading and
\* when the mounted element changes while not loading; the effect never
\* recomputes while isStyleLoading is true; a recomputation changes nothing
\* when no element is mounted or the mounted element has no '.md-footer'.
C17_FooterEffect ==
  [][/\ (isStyleLoading /\ ~isStyleLoading')
          => footerWidth' = Recomputed(dom, boxWidth, footerWidth)
     /\ (state' # state /\ ~isStyleLoading)
          => footerWidth' = Recomputed(dom, boxWidth, footerWidth)
     /\ (effectDom' # effectDom /\ ~isStyleLoading)
          => /\ effectDom' = dom
             /\ footerWidth' = Recomputed(dom, boxWidth, footerWidth)
     /\ (FooterTrigger /\ isStyleLoading') => footerWidth' = footerWidth
     /\ (FooterTrigger /\ (dom = NULL \/ ~HasFooter(rawContent[dom])))
          => footerWidth' = footerWidth]_vars

\* The footer of the mounted document has the width of the container after
\* a change of the reader state, styles loaded.
C17_Witness ==
  /\ alive /\ ~isStyleLoading /\ FooterMounted
  /\ state = "CONTENT_FRESH"
  /\ footerWidth[dom] = Px(boxWidth)
====
